---- MODULE Spec2Model ----
(***************************************************************************)
(* Index-pool provisioner of NeuroAgent: the vector_indexes table, the     *)
(* knowledge-base repository, the ProvisionManager (provisioning tasks,    *)
(* reconcile and cleanup cycles, the two workers and their trigger queues) *)
(* and the request handlers that reserve and release indexes.              *)
(*                                                                         *)
(* Every await of the source is a step of its own: a DB transaction is one *)
(* step (it commits or rolls back as a whole), a cloud call is issued in   *)
(* one step and returns in another.  DB and cloud failures are inputs: a   *)
(* step that talks to either draws its outcome with \E.                    *)
(***************************************************************************)
EXTENDS Integers, FiniteSets, Sequences, TLC

(* ------------------------------ bounds -------------------------------- *)
\* rows the table may already hold when the process starts
MaxInitRows == 3
\* calls of provision_new_index made during a run
MaxProvisionCalls == 2
\* create-KB requests made during a run
MaxCreateRequests == 2
\* knowledge bases a table given to the cleanup query may hold
MaxInitKbs == 2
\* documents the registry may hold
MaxDocuments == 2
\* cleanup cycles the scheduled job starts
MaxCleanupCycles == 1
\* cleanup cycles the cleanup worker starts
MaxWorkerCycles == 2
\* cycles of the reconcile worker
MaxReconcileCycles == 2
\* longest trigger queue explored
MaxQueue == 2
\* minutes the clock may reach
MaxNow == 11

(* --------------------------- program constants ------------------------ *)
\* app/constants/globals.py (not in the source tree): MIN_INDEX_POOL
MIN_INDEX_POOL == 3
\* app/constants/globals.py (not in the source tree): MAX_INDEX_PROVISIONER
MAX_INDEX_PROVISIONER == 4
\* app/constants/globals.py (not in the source tree): TIME_THRESHOLD, minutes
TIME_THRESHOLD == 10
\* manager.py:187  stuck_threshold = current_time - timedelta(minutes=10)
CleanupStuckMinutes == 10
\* the clock moves in steps that take a row across the stuck threshold
ClockStep == CleanupStuckMinutes + 1

Users == {1, 2}

\* ProvisionerStatusEnum
PROVISIONING == "PROVISIONING"
AVAILABLE == "AVAILABLE"
ASSIGNED == "ASSIGNED"
DESTROYED == "DESTROYED"
CLEANUP == "CLEANUP"
FAILED == "FAILED"
ProvisionerStatusEnum == {PROVISIONING, AVAILABLE, ASSIGNED, DESTROYED, CLEANUP, FAILED}

VARIABLES
    vector_indexes,     \* table vector_indexes: id -> [status, index_arn, created_at]
    next_index_id,      \* the table's identity column
    knowledge_bases,    \* table knowledge_bases: id -> [user_id, index_id]
    next_kb_id,
    kb_documents,       \* table knowledge_base_documents, as the set of kb ids with a member row
    remote,             \* index arns that exist in the vector bucket
    now,                \* wall clock, minutes
    provisioners,       \* calls of provision_new_index: set of task records
    provision_calls,    \* calls of provision_new_index made so far
    creators,           \* create-KB requests holding a row lock: set of [user_id, row]
    create_requests,    \* create-KB requests made so far
    answers,            \* create-KB requests answered so far, by outcome
    deleters,           \* the last delete-KB request and its answer
    document_registry,  \* table document_registry: id -> [user_id, lock_status, op_status]
    document_members,   \* documents with a row in knowledge_base_documents
    objects,            \* object keys stored in the bucket; a document's key is its id
    file_deleters,      \* the last delete-file request and its answer
    init_rows,          \* rows the table held when the process started
    cleanups,           \* cleanup cycles, by runner
    cleanup_cycles,     \* cleanup cycles started, by runner
    reconcile_worker,   \* the reconcile worker: [pc, cycles, last]
    prime,              \* pre_start.prime_index_pool: "ready", "primed" or "raised"
    pool_stats,         \* the last call of get_index_pool_stats: its flag and its end
    reconcile_queue,    \* len(_reconcile_trigger_queue)
    cleanup_queue,      \* len(_cleanup_trigger_queue)
    cleanup_posts       \* calls of trigger_cleanup made so far

\* groups of variables, for the frame conditions
index_table == <<vector_indexes, next_index_id>>
kb_table == <<knowledge_bases, next_kb_id, kb_documents>>
tasks_state == <<provisioners, provision_calls>>
documents_state == <<document_registry, document_members, objects, file_deleters>>
facade_state == <<creators, create_requests, answers, deleters, documents_state>>
cleanup_state == <<cleanups, cleanup_cycles>>
reconcile_state == <<reconcile_worker, prime, pool_stats>>
cleanup_channel == <<cleanup_queue, cleanup_posts>>

vars == <<vector_indexes, next_index_id, knowledge_bases, next_kb_id, kb_documents,
          remote, now, provisioners, provision_calls, creators, create_requests,
          answers, deleters, document_registry, document_members, objects,
          file_deleters, init_rows, cleanups, cleanup_cycles,
          reconcile_worker, prime, pool_stats, reconcile_queue, cleanup_queue,
          cleanup_posts>>


(* ------------------------------ tables -------------------------------- *)
Rows == DOMAIN vector_indexes
Kbs == DOMAIN knowledge_bases

Row(status, arn, created) == [status |-> status, index_arn |-> arn, created_at |-> created]

WithStatus(s) == {i \in Rows : vector_indexes[i].status = s}

\* KnowledgeBase.index_id == id
Referenced(id) == \E k \in Kbs : knowledge_bases[k].index_id = id

KbsOf(id) == {k \in Kbs : knowledge_bases[k].index_id = id}

Without(f, ids) == [i \in (DOMAIN f) \ ids |-> f[i]]

StatusOf(id) == IF id \in Rows THEN vector_indexes[id].status ELSE "GONE"

(* ------------------------- provision_new_index ------------------------ *)
\* manager.py:35  index_name = f"{generate_random_string}": the function is
\* formatted, not called, so the name is the function's repr, one value for
\* the whole life of the process.
generate_random_string_repr == 0

index_name(call) == generate_random_string_repr

\* utils/generate.py:9  f"{bucket_arn}/index/{index_name}", the bucket being fixed
generate_index_arn(name) == name

Task(id, pc, row, arn) == [id |-> id, pc |-> pc, row |-> row, index_arn |-> arn]

Running(t) == t.pc \in {"create_index", "rollback", "finalize"}

SetTask(t, pc) == (provisioners \ {t}) \cup {[t EXCEPT !.pc = pc]}

\* create_index calls issued so far: one by every task that got past Phase A
create_index_calls == Cardinality({t \in provisioners : t.pc # "raised_insert"})

\* Phase A, manager.py:40-54, and the dispatch of create_index, manager.py:57-66.
\* outcome "insert": the insert transaction fails, nothing is stored;
\* outcome "refresh": the insert committed and db.refresh raised: the row
\* stays, index_record_id was never set, the task raises;
\* outcome "ok": the row is stored and create_index is dispatched to a thread.
PhaseA(call, outcome) ==
    LET arn == generate_index_arn(index_name(call))
        id == next_index_id
        stored == outcome \in {"ok", "refresh"}
    IN /\ vector_indexes' = IF stored
                            THEN vector_indexes @@ (id :> Row(PROVISIONING, arn, now))
                            ELSE vector_indexes
       /\ next_index_id' = IF stored THEN id + 1 ELSE id
       /\ provisioners' = provisioners \cup
             {Task(call, IF outcome = "ok" THEN "create_index" ELSE "raised_insert",
                   IF outcome = "ok" THEN id ELSE 0, arn)}

\* A call of ProvisionManager.provision_new_index.
ProvisionCall ==
    /\ provision_calls < MaxProvisionCalls
    /\ provision_calls' = provision_calls + 1
    /\ \E outcome \in {"ok", "insert", "refresh"} : PhaseA(provision_calls + 1, outcome)
    /\ UNCHANGED <<kb_table, remote, now, facade_state, init_rows, cleanup_state,
                   reconcile_state, reconcile_queue, cleanup_channel>>

\* Phase B returns, manager.py:63-69: create_vector_index either created the
\* index or raised (aws/client.py:308-322 re-raises whatever the service raised).
CreateIndexReturns ==
    \E t \in provisioners, ok \in BOOLEAN :
        /\ t.pc = "create_index"
        /\ remote' = IF ok THEN remote \cup {t.index_arn} ELSE remote
        /\ provisioners' = SetTask(t, IF ok THEN "finalize" ELSE "rollback")
        /\ UNCHANGED <<index_table, kb_table, now, provision_calls, facade_state,
                       init_rows, cleanup_state, reconcile_state, reconcile_queue,
                       cleanup_channel>>

\* the compensation that keeps the row and marks it FAILED
RolledBackAsFailed(t, dbok) ==
    IF dbok /\ t.row \in Rows
    THEN [vector_indexes EXCEPT ![t.row] = [@ EXCEPT !.status = FAILED]]
    ELSE vector_indexes

\* The compensating transaction, manager.py:70-83: db.get, delete if found;
\* its own failure is logged and swallowed, and the create error is re-raised.
RolledBack(t, dbok) ==
    IF dbok /\ t.row \in Rows THEN Without(vector_indexes, {t.row}) ELSE vector_indexes

Rollback ==
    \E t \in provisioners, dbok \in BOOLEAN :
        /\ t.pc = "rollback"
        /\ vector_indexes' = RolledBack(t, dbok)
        /\ provisioners' = SetTask(t, "raised_create")
        /\ UNCHANGED <<next_index_id, kb_table, remote, now, provision_calls,
                       facade_state, init_rows, cleanup_state, reconcile_state,
                       reconcile_queue, cleanup_channel>>

\* the finalize that writes the status of a reserved index
FinalizedAssigned(t) ==
    [vector_indexes EXCEPT ![t.row] = [@ EXCEPT !.status = ASSIGNED]]

\* Phase C, manager.py:85-97: db.get; a missing row raises RuntimeError;
\* otherwise the row's status is set to AVAILABLE whatever it was.
Finalized(t) ==
    [vector_indexes EXCEPT ![t.row] = [@ EXCEPT !.status = AVAILABLE]]

Finalize ==
    \E t \in provisioners, dbok \in BOOLEAN :
        /\ t.pc = "finalize"
        /\ IF ~dbok
           THEN /\ provisioners' = SetTask(t, "raised_finalize")
                /\ UNCHANGED vector_indexes
           ELSE IF t.row \notin Rows
           THEN /\ provisioners' = SetTask(t, "raised_finalize_missing")
                /\ UNCHANGED vector_indexes
           ELSE /\ provisioners' = SetTask(t, "provisioned")
                /\ vector_indexes' = Finalized(t)
        /\ UNCHANGED <<next_index_id, kb_table, remote, now, provision_calls,
                       facade_state, init_rows, cleanup_state, reconcile_state,
                       reconcile_queue, cleanup_channel>>

(* ------------------------------- clock -------------------------------- *)
Tick ==
    /\ now + ClockStep <= MaxNow
    /\ now' = now + ClockStep
    /\ UNCHANGED <<index_table, kb_table, remote, tasks_state, facade_state,
                   init_rows, cleanup_state, reconcile_state, reconcile_queue,
                   cleanup_channel>>

(* ------------------------------ create_kb ----------------------------- *)
\* rows a create_kb transaction holds FOR UPDATE
LockedRows == {c.row : c \in creators}

\* the select without its row lock: every AVAILABLE row is a candidate
SelectableRowsUnlocked == WithStatus(AVAILABLE)

\* knowledge_base.py:21-29: AVAILABLE rows, FOR UPDATE SKIP LOCKED, LIMIT 1
\* over a random order: any AVAILABLE row no other transaction has locked.
SelectableRows == WithStatus(AVAILABLE) \ LockedRows

Answered(kind) == [answers EXCEPT ![kind] = @ + 1]

\* POST /kb/create up to the select, routes/knowledge_base.py:30-41 and
\* knowledge_base.py:20-33.  No row: scalar_one raises NoResultFound, the
\* handler at :49 raises RuntimeError and the route answers 500.
CreateKbSelect ==
    \E user \in Users :
        /\ create_requests < MaxCreateRequests
        /\ create_requests' = create_requests + 1
        /\ IF SelectableRows = {}
           THEN /\ answers' = Answered("no_index")
                /\ UNCHANGED creators
           ELSE /\ \E r \in SelectableRows :
                      creators' = creators \cup {[user_id |-> user, row |-> r]}
                /\ UNCHANGED answers
        /\ UNCHANGED <<index_table, kb_table, remote, now, tasks_state, deleters,
                       documents_state, init_rows, cleanup_state, reconcile_state,
                       reconcile_queue, cleanup_channel>>

\* the reservation that inserts the KB and forgets the status
ReservedWithoutStatus(c) == vector_indexes

\* knowledge_base.py:35-43 and the commit at the end of db.begin()
Reserved(c) ==
    [vector_indexes EXCEPT ![c.row] = [@ EXCEPT !.status = ASSIGNED]]

\* the transaction that reserves the row and stores no KB
InsertedNothing(c) == knowledge_bases

\* the transaction that stores the KB without its index
InsertedUnbound(c) ==
    knowledge_bases @@ (next_kb_id :> [user_id |-> c.user_id, index_id |-> 0])

\* knowledge_base.py:37-43: db.add(KnowledgeBase(user_id, index_id, name))
Inserted(c) ==
    knowledge_bases @@ (next_kb_id :> [user_id |-> c.user_id, index_id |-> c.row])

\* ProvisionManager.trigger_reconciliation, manager.py:169-174: the queue is
\* asyncio.Queue() without maxsize (manager.py:31), so put_nowait always adds.
trigger_reconciliation(q) == q + 1

\* the offer that is dropped
trigger_cleanup_lost(q) == q

\* ProvisionManager.trigger_cleanup, manager.py:176-181, on the queue of manager.py:32
trigger_cleanup(q) == q + 1

\* the wake that takes the one trigger get() returned and leaves the others
TookOne(q) == q - 1

\* manager.py:153-159 and :283-288: get() takes a trigger, then get_nowait()
\* takes every other one until the queue is empty.
Drained(q) == 0

\* the route that posts its trigger whatever create_kb_db ended with
PostsTriggerAnyway(outcome) == TRUE

\* routes/knowledge_base.py:41-46: trigger_reconciliation is the statement
\* after the awaited create_kb_db, inside the try: it runs only when
\* create_kb_db returned.
PostsTrigger(outcome) == outcome = "created"

\* The rest of the request, knowledge_base.py:35-61 and routes/knowledge_base.py:42-52.
\* "created": committed, refreshed, trigger posted, 201.
\* "rolled_back": the flush or commit fails (IntegrityError or other), 500.
\* "committed_then_raised": committed, db.refresh raises: the handler at :59
\*     answers 500, nothing is left to roll back and no trigger is posted.
CreateKbCommit ==
    \E c \in creators, outcome \in {"created", "rolled_back", "committed_then_raised"} :
        /\ creators' = creators \ {c}
        /\ answers' = Answered(outcome)
        /\ IF outcome = "rolled_back"
           THEN UNCHANGED <<vector_indexes, knowledge_bases, next_kb_id>>
           ELSE /\ vector_indexes' = Reserved(c)
                /\ knowledge_bases' = Inserted(c)
                /\ next_kb_id' = next_kb_id + 1
        /\ IF PostsTrigger(outcome)
           THEN /\ reconcile_queue < MaxQueue
                /\ reconcile_queue' = trigger_reconciliation(reconcile_queue)
           ELSE UNCHANGED reconcile_queue
        /\ UNCHANGED <<next_index_id, kb_documents, remote, now, tasks_state,
                       create_requests, deleters, documents_state, init_rows, cleanup_state,
                       reconcile_state, cleanup_channel>>

(* ------------------------------ delete_kb ----------------------------- *)
\* delete_kb_db, knowledge_base.py:140-168, as the exception it ends with,
\* "" when it returns True.
\*  :149 scalar_one: no KB of that id and user raises NoResultFound.
\*  :152 kb.vector_index = ProvisionerStatusEnum.CLEANUP assigns an enum member
\*       to the relationship attribute; the attribute's set event needs the
\*       instance state of a mapped object and raises AttributeError, whatever
\*       the status of the index.  The lines after it never run.
delete_kb_db(user, kb) ==
    IF ~(kb \in Kbs /\ knowledge_bases[kb].user_id = user) THEN "NoResultFound"
    ELSE IF knowledge_bases[kb].index_id \in Rows THEN "AttributeError"
    ELSE "RuntimeError"

\* DELETE /kb/delete/{kb_id}, routes/knowledge_base.py:125-156: 400 for id 0;
\* any exception of delete_kb_db, NoResultFound included, is answered 500 by
\* the handler at :151; trigger_cleanup (:139) runs only after a return.  The
\* transaction of a call that raised is rolled back: no table changes.
DeleteKb ==
    \E user \in Users, kb \in 0..(next_kb_id - 1) :
        LET found == kb \in Kbs /\ knowledge_bases[kb].user_id = user
            raised == IF kb = 0 THEN "HTTPException" ELSE delete_kb_db(user, kb)
            http == IF kb = 0 THEN 400 ELSE IF raised = "" THEN 200 ELSE 500
        IN /\ raised # ""
           /\ deleters' = [kb |-> kb, found |-> found, raised |-> raised,
                           index |-> IF found THEN knowledge_bases[kb].index_id ELSE 0,
                           http |-> http, triggered |-> FALSE]
           /\ deleters' # deleters
           /\ UNCHANGED <<index_table, kb_table, remote, now, tasks_state, creators,
                          create_requests, answers, documents_state, init_rows, cleanup_state,
                          reconcile_state, reconcile_queue, cleanup_channel>>

\* A membership row of knowledge_base_documents is added for a KB
\* (app/database/ingestion.py, not in the source tree).
IngestDocument ==
    \E kb \in Kbs \ kb_documents :
        /\ kb_documents' = kb_documents \cup {kb}
        /\ UNCHANGED <<index_table, knowledge_bases, next_kb_id, remote, now,
                       tasks_state, facade_state, init_rows, cleanup_state,
                       reconcile_state, reconcile_queue, cleanup_channel>>

(* ------------------------------ documents ----------------------------- *)
\* OperationStatusEnum, app/database/schema.py:38-41
PENDING == "PENDING"
SUCCESS == "SUCCESS"
OperationStatusEnum == {PENDING, SUCCESS, FAILED}

Documents == DOMAIN document_registry

Document(user, lock, op) == [user_id |-> user, lock_status |-> lock, op_status |-> op]

NoFileRequest == [file_id |-> 0, user_id |-> 0, http |-> 0, raised |-> ""]

\* the registry and the bucket hold no document and no request was made
NoDocuments ==
    /\ document_registry = <<>>
    /\ document_members = {}
    /\ objects = {}
    /\ file_deleters = NoFileRequest

\* document_registry.py:208  `not DocumentRegistry.lock_status`: Python's `not`
\* is applied to the mapped attribute, an object without a truth value of
\* its own, so the expression is the constant False before any SQL is
\* built, and where() takes it as the SQL constant false.
not_lock_status == FALSE

\* document_registry.py:132  `DocumentRegistry.lock_status is True`: an
\* identity test of the mapped attribute against True, the constant False.
lock_status_is_True == FALSE

\* .values(lock_status=True, op_status=PENDING), document_registry.py:213
Locked(registry, ids) ==
    [d \in DOMAIN registry |->
        IF d \in ids
        THEN [registry[d] EXCEPT !.lock_status = TRUE, !.op_status = PENDING]
        ELSE registry[d]]

\* lock_documents without its look at knowledge_base_documents
lock_documents_unchecked(ids, user, for_deletion, dbok) ==
    LET matched == {d \in Documents :
                       /\ not_lock_status
                       /\ d \in ids
                       /\ document_registry[d].op_status = SUCCESS
                       /\ document_registry[d].user_id = user}
    IN IF ~dbok
       THEN [raised |-> "DatabaseError", object_keys |-> {},
             registry |-> document_registry]
       ELSE [raised |-> "", object_keys |-> matched,
             registry |-> Locked(document_registry, matched)]

\* lock_documents, document_registry.py:186-223, as what it raised, the
\* object keys it returned and the registry it left.  :194-203 a document of
\* `ids` with a membership row raises DocumentInKnowledgeBaseError when
\* for_deletion; :205-218 the rows matching the where clause are set locked
\* and PENDING and their object keys returned; :220-223 any exception rolls
\* back and is re-raised.
lock_documents(ids, user, for_deletion, dbok) ==
    LET existing_docs == ids \cap document_members
        matched == {d \in Documents :
                       /\ not_lock_status
                       /\ d \in ids
                       /\ document_registry[d].op_status = SUCCESS
                       /\ document_registry[d].user_id = user}
    IN IF ~dbok
       THEN [raised |-> "DatabaseError", object_keys |-> {},
             registry |-> document_registry]
       ELSE IF for_deletion /\ existing_docs # {}
       THEN [raised |-> "DocumentInKnowledgeBaseError", object_keys |-> {},
             registry |-> document_registry]
       ELSE [raised |-> "", object_keys |-> matched,
             registry |-> Locked(document_registry, matched)]

\* delete_documents, document_registry.py:127-141: DELETE of the rows of
\* `ids` that are PENDING, pass the lock_status test and belong to the user.
delete_documents(registry, ids, user) ==
    Without(registry, {d \in DOMAIN registry :
                          /\ d \in ids
                          /\ registry[d].op_status = PENDING
                          /\ lock_status_is_True
                          /\ registry[d].user_id = user})

\* DELETE /documents/delete/{file_id}, routes/document_registry.py:169-212.
\* 400 for id 0; 409 when lock_documents raised DocumentInKnowledgeBaseError;
\* 404 when it returned no object key; 500 for any other exception, that of
\* multiple_delete_objects (aws/client.py:196-237) included, which leaves the
\* lock committed; otherwise the objects are deleted, delete_documents runs
\* and the answer is 200.
DeleteFile ==
    \E user \in Users, file_id \in 0..MaxDocuments, dbok \in BOOLEAN, s3ok \in BOOLEAN :
        LET ids == {file_id}
            lock == lock_documents(ids, user, TRUE, dbok)
            keys == lock.object_keys
            http == IF file_id = 0 THEN 400
                    ELSE IF lock.raised = "DocumentInKnowledgeBaseError" THEN 409
                    ELSE IF lock.raised # "" THEN 500
                    ELSE IF keys = {} THEN 404
                    ELSE IF ~s3ok THEN 500
                    ELSE 200
        IN /\ document_registry' =
                 IF file_id = 0 \/ lock.raised # "" THEN document_registry
                 ELSE IF http = 200 THEN delete_documents(lock.registry, ids, user)
                 ELSE lock.registry
           /\ objects' = IF http = 200 THEN objects \ keys ELSE objects
           /\ file_deleters' = [file_id |-> file_id, user_id |-> user, http |-> http,
                                raised |-> IF file_id = 0 THEN "HTTPException"
                                           ELSE IF lock.raised # "" THEN lock.raised
                                           ELSE IF http = 404 THEN "HTTPException"
                                           ELSE IF http = 500 THEN "S3OperationError"
                                           ELSE ""]
           /\ file_deleters' # file_deleters
           /\ UNCHANGED <<index_table, kb_table, remote, now, tasks_state, creators,
                          create_requests, answers, deleters, document_members,
                          init_rows, cleanup_state, reconcile_state, reconcile_queue,
                          cleanup_channel>>

(* ------------------------------- cleanup ------------------------------ *)
Runners == {"worker", "scheduler"}

\* the query that leaves the stuck PROVISIONING rows out
CleanupCandidateNoStuck(id) ==
    LET row == vector_indexes[id]
    IN \/ row.status = FAILED
       \/ row.status = CLEANUP /\ ~Referenced(id)

\* get_cleanup_indexes, manager.py:183-217: FAILED, or PROVISIONING created
\* before now - 10 minutes, or CLEANUP with no KnowledgeBase joined to it.
CleanupCandidate(id) ==
    LET row == vector_indexes[id]
    IN \/ row.status = FAILED
       \/ row.status = PROVISIONING /\ row.created_at < now - CleanupStuckMinutes
       \/ row.status = CLEANUP /\ ~Referenced(id)

\* manager.py:203: the rows the outer join yields for a VectorIndex: one per
\* KnowledgeBase whose index_id is its id, or one with no KnowledgeBase (0)
JoinedKbs(id) == IF Referenced(id) THEN KbsOf(id) ELSE {0}

\* the select without .distinct(): a VectorIndex once per joined row
NotDistinct(n) == n

\* manager.py:211  .distinct(): a VectorIndex is returned once however many
\* joined rows of it pass the filter
Distinct(n) == IF n > 0 THEN 1 ELSE 0

\* how many times the statement of manager.py:201-212 returns a VectorIndex
returned_times(id) ==
    Distinct(IF CleanupCandidate(id) THEN Cardinality(JoinedKbs(id)) ELSE 0)

get_cleanup_indexes == {id \in Rows : returned_times(id) > 0}

\* a runner between cycles, with what its last cycle ended with: "ok" or
\* "empty" when cleanup_indexes returned, else what it raised.  The callers
\* log it: cleanup_worker, manager.py:293-294; schedule_cleanup_job, main.py:48-53.
Idle(result) == [pc |-> "idle", tasks |-> <<>>, result |-> result]

\* a task of the TaskGroup: where it stands and, once it raised, what it raised
CleanupTask(arn, st) == [index_arn |-> arn, st |-> st, err |-> ""]

\* tasks of a cycle that hold its semaphore, manager.py:225 and :261
Holding(r) == {i \in DOMAIN cleanups[r].tasks :
                  cleanups[r].tasks[i].st \in {"delete_index", "delete_row"}}

Settled(st) == st \in {"done", "raised", "cancelled"}

\* cleanup_indexes up to the TaskGroup, manager.py:249-267.  A failed query
\* raises; an empty result returns; otherwise one task per row is created.
StartCycle(r, dbok) ==
    /\ cleanups[r].pc = "idle"
    /\ cleanup_cycles[r] < (IF r = "worker" THEN MaxWorkerCycles ELSE MaxCleanupCycles)
    /\ cleanup_cycles' = [cleanup_cycles EXCEPT ![r] = @ + 1]
    /\ cleanups' = [cleanups EXCEPT ![r] =
          IF ~dbok THEN Idle("QueryError")
          ELSE IF get_cleanup_indexes = {} THEN Idle("empty")
          ELSE [pc |-> "tasks", result |-> "",
                tasks |-> [i \in get_cleanup_indexes |->
                              CleanupTask(vector_indexes[i].index_arn, "waiting")]]]

\* cleanup_worker, manager.py:279-291: get() returns, every other queued
\* trigger is drained, then cleanup_indexes runs.
CleanupWorkerWake ==
    /\ cleanup_queue > 0
    /\ cleanup_queue' = Drained(cleanup_queue)
    /\ UNCHANGED cleanup_posts
    /\ \E dbok \in BOOLEAN : StartCycle("worker", dbok)
    /\ UNCHANGED <<index_table, kb_table, remote, now, tasks_state, facade_state,
                   init_rows, reconcile_state, reconcile_queue>>

\* schedule_cleanup_job, main.py:48-53, fired by the cron job of main.py:76-83
ScheduledCleanup ==
    /\ \E dbok \in BOOLEAN : StartCycle("scheduler", dbok)
    /\ UNCHANGED <<index_table, kb_table, remote, now, tasks_state, facade_state,
                   init_rows, reconcile_state, reconcile_queue, cleanup_channel>>

\* A call of ProvisionManager.trigger_cleanup, manager.py:176-181.
TriggerCleanup ==
    /\ cleanup_queue < MaxQueue
    /\ cleanup_queue' = trigger_cleanup(cleanup_queue)
    /\ cleanup_posts' = cleanup_posts + 1
    /\ UNCHANGED <<index_table, kb_table, remote, now, tasks_state, facade_state,
                   init_rows, cleanup_state, reconcile_state, reconcile_queue>>

\* _cleanup_one_index, manager.py:225-231: the semaphore is taken and
\* delete_vector_index is dispatched with the index_arn read by the query.
CleanupDispatch ==
    \E r \in Runners :
      \E id \in DOMAIN cleanups[r].tasks :
        /\ cleanups[r].tasks[id].st = "waiting"
        /\ Cardinality(Holding(r)) < MAX_INDEX_PROVISIONER
        /\ cleanups' = [cleanups EXCEPT ![r].tasks[id].st = "delete_index"]
        /\ UNCHANGED <<index_table, kb_table, remote, now, tasks_state, facade_state,
                       init_rows, cleanup_cycles, reconcile_state, reconcile_queue,
                       cleanup_channel>>

\* A task of the TaskGroup raised (manager.py:265-271): the group cancels its
\* unfinished tasks.  A task cancelled at asyncio.to_thread leaves its thread
\* running: the delete_index call of each such task still takes effect or not.
Cancelled(tasks, raiser) ==
    [i \in DOMAIN tasks |->
        IF i = raiser THEN [tasks[i] EXCEPT !.st = "raised"]
        ELSE IF Settled(tasks[i].st) THEN tasks[i]
        ELSE [tasks[i] EXCEPT !.st = "cancelled"]]

InFlightArns(tasks, raiser) ==
    {tasks[i].index_arn :
        i \in {j \in DOMAIN tasks : j # raiser /\ tasks[j].st = "delete_index"}}

\* What the S3 Vectors service may answer to delete_index, aws/client.py:326-329.
\* The service is not part of the repository: it may fail at any time, and
\* for an index that does not exist it may return or raise NotFoundException.
delete_index_answers(arn) ==
    {"ok", "ServiceUnavailableException"} \cup
        (IF arn \in remote THEN {} ELSE {"NotFoundException"})

\* AwsClientManager.delete_vector_index, aws/client.py:324-332: the call, and
\* `except Exception: raise` for whatever the service raised.
delete_vector_index(arn, answer) ==
    [raised |-> IF answer = "ok" THEN "" ELSE answer,
     remote |-> IF answer = "ok" THEN remote \ {arn} ELSE remote]

\* the task `raiser` raised `err`: the TaskGroup cancels the unfinished ones
Raised(tasks, raiser, err) == [Cancelled(tasks, raiser) EXCEPT ![raiser].err = err]

\* delete_vector_index returns, manager.py:231-235.
CleanupDeleteIndexReturns ==
    \E r \in Runners :
      \E id \in DOMAIN cleanups[r].tasks :
        \E answer \in delete_index_answers(cleanups[r].tasks[id].index_arn) :
        LET tasks == cleanups[r].tasks
            call == delete_vector_index(tasks[id].index_arn, answer)
        IN /\ tasks[id].st = "delete_index"
           /\ IF call.raised = ""
              THEN /\ remote' = call.remote
                   /\ cleanups' = [cleanups EXCEPT ![r].tasks[id].st = "delete_row"]
              ELSE \E hit \in SUBSET InFlightArns(tasks, id) :
                   /\ remote' = call.remote \ hit
                   /\ cleanups' = [cleanups EXCEPT ![r].tasks = Raised(tasks, id, call.raised)]
           /\ UNCHANGED <<index_table, kb_table, now, tasks_state, facade_state,
                          init_rows, cleanup_cycles, reconcile_state, reconcile_queue,
                          cleanup_channel>>

\* DELETE FROM vector_indexes WHERE id = :id, manager.py:237-247.  The
\* statement waits for a row lock held by a create_kb transaction.
\* "ok": the row, if still there and unreferenced, is deleted.
\* "cascade": the row is referenced and the foreign key of knowledge_bases
\*            deletes the referencing rows with it.
\* "error": the transaction fails (a referenced row under a restricting
\*            foreign key, or the database): the row stays, the task raises.
CleanupDeleteRow ==
    \E r \in Runners, outcome \in {"ok", "cascade", "error"} :
      \E id \in DOMAIN cleanups[r].tasks :
        LET tasks == cleanups[r].tasks
        IN /\ tasks[id].st = "delete_row"
           /\ id \notin LockedRows
           /\ outcome = "ok" => ~Referenced(id)
           /\ outcome = "cascade" => Referenced(id)
           /\ IF outcome = "error"
              THEN /\ \E hit \in SUBSET InFlightArns(tasks, id) : remote' = remote \ hit
                   /\ cleanups' = [cleanups EXCEPT ![r].tasks =
                                       Raised(tasks, id, "RowDeleteError")]
                   /\ UNCHANGED <<vector_indexes, knowledge_bases, kb_documents>>
              ELSE /\ vector_indexes' = Without(vector_indexes, {id})
                   /\ knowledge_bases' = Without(knowledge_bases, KbsOf(id))
                   /\ kb_documents' = kb_documents \ KbsOf(id)
                   /\ cleanups' = [cleanups EXCEPT ![r].tasks[id].st = "done"]
                   /\ UNCHANGED remote
           /\ UNCHANGED <<next_index_id, next_kb_id, now, tasks_state, facade_state,
                          init_rows, cleanup_cycles, reconcile_state, reconcile_queue,
                          cleanup_channel>>

\* the cycle that forgets what its tasks raised
NoErrors(tasks) == {}

\* what the tasks of a cycle raised
Errors(tasks) == {tasks[i].err : i \in {j \in DOMAIN tasks : tasks[j].st = "raised"}}

\* The TaskGroup is left, manager.py:268-277: the cycle raises the group of
\* exceptions if a task raised and returns otherwise.  The worker (:293) and
\* the scheduled job (main.py:52) log the exception.
CleanupCycleEnds ==
    \E r \in Runners :
        LET tasks == cleanups[r].tasks
        IN /\ cleanups[r].pc = "tasks"
           /\ \A i \in DOMAIN tasks : Settled(tasks[i].st)
           /\ cleanups' = [cleanups EXCEPT ![r] =
                 Idle(IF Errors(tasks) = {} THEN "ok"
                      ELSE CHOOSE e \in Errors(tasks) : TRUE)]
           /\ UNCHANGED <<index_table, kb_table, remote, now, tasks_state, facade_state,
                          init_rows, cleanup_cycles, reconcile_state, reconcile_queue,
                          cleanup_channel>>

(* ----------------------------- pool stats ----------------------------- *)
\* manager.py:101  pool_stats: PoolStats = None, before any call
NoPoolStats == [time_threshold |-> FALSE, raised |-> "", stats |-> <<>>]

\* The row the statement of get_index_pool_stats returns, by label,
\* vector_index.py:15-119.  With time_threshold set (:16-64) every
\* PROVISIONING row is counted; without it (:65-117) only those created at or
\* after now - TIME_THRESHOLD minutes.  A sum over no rows is NULL and is
\* read as 0 (:121-125).
pool_counts(time_threshold) ==
    [total |-> Cardinality(Rows),
     available_count |-> Cardinality(WithStatus(AVAILABLE)),
     provisioning_count |->
         IF time_threshold
         THEN Cardinality(WithStatus(PROVISIONING))
         ELSE Cardinality({i \in WithStatus(PROVISIONING) :
                              vector_indexes[i].created_at >= now - TIME_THRESHOLD}),
     failed_count |-> Cardinality(WithStatus(FAILED)),
     cleanup_count |-> Cardinality(WithStatus(CLEANUP)),
     destroyed_count |-> Cardinality(WithStatus(DESTROYED))]

\* get_index_pool_stats, vector_index.py:13-138: the counts are read from the
\* result row by name; :122 reads `counts.provisioing_count`, a name the
\* statement does not label, which raises AttributeError; the handler at
\* :136-138 logs and re-raises.
get_index_pool_stats(time_threshold) ==
    LET counts == pool_counts(time_threshold)
    IN IF "provisioing_count" \notin DOMAIN counts
       THEN [time_threshold |-> time_threshold, raised |-> "AttributeError",
             stats |-> <<>>]
       ELSE [time_threshold |-> time_threshold, raised |-> "",
             stats |-> [available_count |-> counts.available_count,
                        provisioning_count |-> counts.provisioing_count,
                        failed_count |-> counts.failed_count,
                        cleanup_count |-> counts.cleanup_count,
                        destroyed_count |-> counts.destroyed_count]]

\* A call of get_index_pool_stats on an open session, with either flag.
GetIndexPoolStats ==
    \E time_threshold \in BOOLEAN :
        /\ pool_stats' = get_index_pool_stats(time_threshold)
        /\ pool_stats' # pool_stats
        /\ UNCHANGED <<index_table, kb_table, remote, now, tasks_state, facade_state,
                       init_rows, cleanup_state, reconcile_worker, prime,
                       reconcile_queue, cleanup_channel>>

(* ------------------------------ reconcile ----------------------------- *)
\* reconcile_vector_indexes, manager.py:99-141, as the exception it ends with.
\* :102 `async with SessionLocal as db`: SessionLocal is the sessionmaker of
\* connection.py:11-13 and is not called here; a sessionmaker is no
\* asynchronous context manager, so the statement raises TypeError before the
\* pool is read or any task is created.
reconcile_vector_indexes == "TypeError"

\* index_needed, manager.py:105-112, from the counts the cycle read
index_needed(counts) ==
    LET total_count == counts.available_count + counts.provisioning_count
    IN IF total_count >= MIN_INDEX_POOL THEN 0 ELSE MIN_INDEX_POOL - total_count

\* a cycle that creates min_pool tasks whatever it read
tasks_created_min_pool(raised, needed) == MIN_INDEX_POOL

\* manager.py:126-130: the tasks a cycle creates, range(index_needed) of
\* them; the loop is reached only by a cycle that raised nothing before it.
tasks_created(raised, needed) == IF raised = "" THEN needed ELSE 0

\* What the tasks of a cycle leave in the table: the row each of them inserts
\* in Phase A (manager.py:42-48), the cycle returning only when its tasks
\* have ended (:127-130).
CycleTasks ==
    LET n == tasks_created(reconcile_vector_indexes, index_needed(pool_counts(TRUE)))
    IN /\ vector_indexes' =
             vector_indexes @@
                 [i \in next_index_id..(next_index_id + n - 1) |->
                     Row(PROVISIONING, generate_index_arn(index_name(i)), now)]
       /\ next_index_id' = next_index_id + n

\* the worker whose cycle's exception is not caught: the coroutine ends
AfterCycleUncaught(raised) == IF raised = "" THEN "waiting" ELSE "exited"

\* manager.py:145-148 and :164-167: `except Exception` logs what the cycle
\* raised; the worker goes (back) to the wait of its loop either way.
AfterCycle(raised) == "waiting"

\* reconcilation_worker, manager.py:143-148: the initial cycle; its failure is
\* logged and the loop is entered.
ReconcileWorkerStarts ==
    /\ reconcile_worker.pc = "initial"
    /\ reconcile_worker' = [reconcile_worker EXCEPT
                               !.pc = AfterCycle(reconcile_vector_indexes),
                               !.last = reconcile_vector_indexes]
    /\ CycleTasks
    /\ UNCHANGED <<kb_table, remote, now, tasks_state, facade_state,
                   init_rows, cleanup_state, prime, pool_stats, reconcile_queue,
                   cleanup_channel>>

\* manager.py:150-167: get() returns a trigger, the queue is drained, one
\* cycle runs; the cycle's exception is logged and the worker waits again.
ReconcileWorkerWake ==
    /\ reconcile_worker.pc = "waiting"
    /\ reconcile_worker.cycles < MaxReconcileCycles
    /\ reconcile_queue > 0
    /\ reconcile_queue' = Drained(reconcile_queue)
    /\ reconcile_worker' = [reconcile_worker EXCEPT
                               !.pc = AfterCycle(reconcile_vector_indexes),
                               !.cycles = @ + 1, !.last = reconcile_vector_indexes]
    /\ CycleTasks
    /\ UNCHANGED <<kb_table, remote, now, tasks_state, facade_state,
                   init_rows, cleanup_state, prime, pool_stats, cleanup_channel>>

\* manager.py:152 and :161-167: no trigger within 300 s, the periodic cycle runs.
ReconcileWorkerTimeout ==
    /\ reconcile_worker.pc = "waiting"
    /\ reconcile_worker.cycles < MaxReconcileCycles
    /\ reconcile_queue = 0
    /\ reconcile_worker' = [reconcile_worker EXCEPT
                               !.pc = AfterCycle(reconcile_vector_indexes),
                               !.cycles = @ + 1, !.last = reconcile_vector_indexes]
    /\ CycleTasks
    /\ UNCHANGED <<kb_table, remote, now, tasks_state, facade_state,
                   init_rows, cleanup_state, prime, pool_stats, reconcile_queue,
                   cleanup_channel>>

\* prime_index_pool, pre_start.py:14-24: one reconcile pass; its exception is
\* logged and re-raised, and the script exits with status 1 (:36-40).
Prime ==
    /\ prime = "ready"
    /\ prime' = IF reconcile_vector_indexes = "" THEN "primed" ELSE "raised"
    /\ CycleTasks
    /\ UNCHANGED <<kb_table, remote, now, tasks_state, facade_state,
                   init_rows, cleanup_state, reconcile_worker, pool_stats,
                   reconcile_queue, cleanup_channel>>

(* ------------------------------ shutdown ------------------------------ *)
\* every unfinished task of a TaskGroup whose parent was cancelled
CancelledAll(tasks) ==
    [i \in DOMAIN tasks |->
        IF Settled(tasks[i].st) THEN tasks[i] ELSE [tasks[i] EXCEPT !.st = "cancelled"]]

\* lifespan after the yield, main.py:88-102: both worker tasks are cancelled
\* and awaited.  CancelledError is raised at the await each worker stands at;
\* no `except Exception` of the manager catches it (manager.py:233, :245,
\* :268, :293, :166), so it reaches task_wrapper (main.py:38), which logs it,
\* and the task is done.  A cleanup cycle in its TaskGroup has its children
\* cancelled: one waiting for the semaphore never calls delete_index, one at
\* asyncio.to_thread leaves its thread running (the call takes effect or
\* not) and never gets to its row delete, one at its row delete has the
\* transaction rolled back.
Shutdown ==
    LET tasks == cleanups["worker"].tasks
    IN /\ reconcile_worker.pc # "cancelled"
       /\ reconcile_worker' = [reconcile_worker EXCEPT !.pc = "cancelled"]
       /\ \E hit \in SUBSET InFlightArns(tasks, 0) : remote' = remote \ hit
       /\ cleanups' = [cleanups EXCEPT !["worker"] =
             [pc |-> "cancelled", result |-> "CancelledError",
              tasks |-> CancelledAll(tasks)]]
       /\ UNCHANGED <<index_table, kb_table, now, tasks_state, facade_state,
                      init_rows, cleanup_cycles, prime, pool_stats, reconcile_queue,
                      cleanup_channel>>

(* ------------------------------- system ------------------------------- *)
AnswerKinds == {"created", "no_index", "rolled_back", "committed_then_raised"}

\* The process starts on a table that earlier runs may have filled: up to
\* MaxInitRows AVAILABLE rows, each with its index in the bucket; no KB yet.
Init ==
    /\ init_rows \in 0..MaxInitRows
    /\ vector_indexes = [i \in 1..init_rows |-> Row(AVAILABLE, i, 0)]
    /\ next_index_id = init_rows + 1
    /\ remote = 1..init_rows
    /\ knowledge_bases = <<>>
    /\ next_kb_id = 1
    /\ kb_documents = {}
    /\ now = 0
    /\ provisioners = {}
    /\ provision_calls = 0
    /\ creators = {}
    /\ create_requests = 0
    /\ answers = [k \in AnswerKinds |-> 0]
    /\ deleters = [kb |-> 0, found |-> FALSE, raised |-> "", index |-> 0, http |-> 0,
                   triggered |-> FALSE]
    /\ NoDocuments
    /\ cleanups = [r \in Runners |-> Idle("")]
    /\ cleanup_cycles = [r \in Runners |-> 0]
    /\ reconcile_worker = [pc |-> "initial", cycles |-> 0, last |-> ""]
    /\ prime = "ready"
    /\ pool_stats = NoPoolStats
    /\ reconcile_queue = 0
    /\ cleanup_queue = 0
    /\ cleanup_posts = 0

\* The whole program.
Next ==
    \/ ProvisionCall
    \/ CreateIndexReturns
    \/ Rollback
    \/ Finalize
    \/ Tick
    \/ CreateKbSelect
    \/ CreateKbCommit
    \/ DeleteKb
    \/ IngestDocument
    \/ CleanupWorkerWake
    \/ ScheduledCleanup
    \/ TriggerCleanup
    \/ CleanupDispatch
    \/ CleanupDeleteIndexReturns
    \/ CleanupDeleteRow
    \/ CleanupCycleEnds
    \/ ReconcileWorkerStarts
    \/ ReconcileWorkerWake
    \/ ReconcileWorkerTimeout
    \/ Prime
    \/ Shutdown
    \/ GetIndexPoolStats
    \/ DeleteFile

Spec == Init /\ [][Next]_vars

\* The pool: provisioning tasks, reservations and the scheduled sweep.  Of
\* the steps left out, delete_kb, the reconcile cycles and the prime write
\* none of the tables, the bucket or the clock, and the cleanup worker runs
\* the cycle the scheduled sweep runs.
NextPool ==
    \/ ProvisionCall
    \/ CreateIndexReturns
    \/ Rollback
    \/ Finalize
    \/ Tick
    \/ CreateKbSelect
    \/ CreateKbCommit
    \/ ScheduledCleanup
    \/ CleanupDispatch
    \/ CleanupDeleteIndexReturns
    \/ CleanupDeleteRow
    \/ CleanupCycleEnds

SpecPool == Init /\ [][NextPool]_vars

\* The request handlers, the reconcile worker, the startup prime and the
\* scheduled sweep, on a table that no provisioning task touches meanwhile.
NextFacade ==
    \/ CreateKbSelect
    \/ CreateKbCommit
    \/ DeleteKb
    \/ IngestDocument
    \/ ScheduledCleanup
    \/ ReconcileWorkerStarts
    \/ ReconcileWorkerWake
    \/ ReconcileWorkerTimeout
    \/ Prime

SpecFacade == Init /\ [][NextFacade]_vars

\* The sweep: provisioning tasks, the cleanup worker woken by trigger_cleanup
\* and its cycles, and the reconcile worker on its timer, with no reservation.
NextSweep ==
    \/ ProvisionCall
    \/ CreateIndexReturns
    \/ Rollback
    \/ Finalize
    \/ Tick
    \/ TriggerCleanup
    \/ CleanupWorkerWake
    \/ CleanupDispatch
    \/ CleanupDeleteIndexReturns
    \/ CleanupDeleteRow
    \/ CleanupCycleEnds
    \/ ReconcileWorkerStarts
    \/ ReconcileWorkerTimeout

SpecSweep == Init /\ [][NextSweep]_vars

\* The two workers and what posts their triggers: create-KB requests for the
\* reconcile worker, calls of trigger_cleanup for the cleanup worker.
NextWorkers ==
    \/ CreateKbSelect
    \/ CreateKbCommit
    \/ ReconcileWorkerStarts
    \/ ReconcileWorkerWake
    \/ ReconcileWorkerTimeout
    \/ TriggerCleanup
    \/ CleanupWorkerWake

SpecWorkers == Init /\ [][NextWorkers]_vars

\* The workers are tasks of the event loop (main.py:62-71): a worker that can
\* go on does go on.  ReconcileWorkerStarts is the task's first run, the two
\* wakes are the return of `await queue.get()` on a queue that holds an item.
SpecWorkersFair ==
    /\ SpecWorkers
    /\ WF_vars(ReconcileWorkerStarts)
    /\ WF_vars(ReconcileWorkerWake)
    /\ WF_vars(CleanupWorkerWake)

(* ------------------------------- claims ------------------------------- *)
Min(a, b) == IF a < b THEN a ELSE b

Count(status) == Cardinality(WithStatus(status))

\* tasks that took their row to AVAILABLE
Provisioned == {t \in provisioners : t.pc = "provisioned"}

\* knowledge bases ever inserted: the identity column counts them
KbsCreated == next_kb_id - 1

\* PROVISIONING rows younger than the stuck threshold
FreshProvisioning ==
    {i \in WithStatus(PROVISIONING) : vector_indexes[i].created_at >= now - TIME_THRESHOLD}

\* cleanup tasks whose delete_index call was issued and whose row is not yet deleted
TearingDown ==
    {i \in Rows : \E r \in Runners :
        /\ i \in DOMAIN cleanups[r].tasks
        /\ cleanups[r].tasks[i].st \in {"delete_index", "delete_row"}}

\* C1: no two create_kb calls are bound to the same index row, and the calls
\* that inserted a KB are at most min(N, rows that were ever AVAILABLE): the
\* rows the table started with plus those provisioned since.
C1_NoDoubleReserve ==
    /\ \A i \in Rows : Cardinality(KbsOf(i)) <= 1
    /\ KbsCreated <= Min(create_requests, init_rows + Cardinality(Provisioned))

\* C1 witness: two calls on a table that started with one AVAILABLE row and
\* got no new one: one call inserted its KB, the other was answered that no
\* index is available.
C1_Witness ==
    /\ init_rows = 1
    /\ Provisioned = {}
    /\ create_requests = 2
    /\ KbsCreated = 1
    /\ answers["no_index"] = 1
    /\ creators = {}

\* C2: no AVAILABLE row is referenced by a KB, and every KB references a row
\* that exists with status ASSIGNED or CLEANUP.
C2_ReferencedStatus ==
    /\ \A i \in WithStatus(AVAILABLE) : ~Referenced(i)
    /\ \A k \in Kbs : StatusOf(knowledge_bases[k].index_id) \in {ASSIGNED, CLEANUP}

\* C2 witness: a KB exists beside an AVAILABLE row after a sweep deleted a row.
C2_Witness ==
    /\ Kbs # {}
    /\ WithStatus(AVAILABLE) # {}
    /\ cleanups["scheduler"].result = "ok"
    /\ Cardinality(Rows) < next_index_id - 1

\* C3: the candidate query returns no row a KB references, and no cleanup
\* task has called delete_index for, or is deleting, a row a KB references.
C3_CleanupSafety ==
    /\ \A i \in get_cleanup_indexes : ~Referenced(i)
    /\ \A i \in TearingDown : ~Referenced(i)

\* C4: with nothing failing but the cycle's own code, a reconcile cycle of the
\* worker returns without raising and leaves AVAILABLE plus fresh PROVISIONING
\* at MIN_POOL or more, unless MAX_PROVISIONER provisioning tasks are in flight.
C4_PoolFloor ==
    reconcile_worker.pc = "waiting" =>
        /\ reconcile_worker.last = ""
        /\ \/ Count(AVAILABLE) + Cardinality(FreshProvisioning) >= MIN_INDEX_POOL
           \/ Cardinality({t \in provisioners : Running(t)}) >= MAX_INDEX_PROVISIONER

\* C5: prime() on an empty table ends with exactly MIN_POOL rows, all
\* AVAILABLE, after exactly MIN_POOL create_index calls.
C5_PrimeFillsPool ==
    (init_rows = 0 /\ prime # "ready") =>
        /\ prime = "primed"
        /\ Cardinality(Rows) = MIN_INDEX_POOL
        /\ Count(AVAILABLE) = MIN_INDEX_POOL
        /\ create_index_calls = MIN_INDEX_POOL

\* C6: a task whose create_index raised never leaves its row AVAILABLE, and
\* once it has returned there is no row with its index_arn or a FAILED row
\* with its index_arn.
C6_Rollback ==
    \A t \in provisioners :
        t.pc = "raised_create" =>
            /\ StatusOf(t.row) # AVAILABLE
            /\ \/ ~\E i \in Rows : vector_indexes[i].index_arn = t.index_arn
               \/ \E i \in WithStatus(FAILED) : vector_indexes[i].index_arn = t.index_arn

\* C7: a task that found its row missing at finalize has re-inserted a FAILED
\* row with its index_arn or has deleted the remote index it created.
C7_FinalizeMissingRow ==
    \A t \in provisioners :
        t.pc = "raised_finalize_missing" =>
            \/ \E i \in WithStatus(FAILED) : vector_indexes[i].index_arn = t.index_arn
            \/ t.index_arn \notin remote

\* C8: delete_kb for a KB of the calling user leaves, as one change, the
\* index CLEANUP, no membership row of the KB and no KB row.
C8_DeleteKbAtomic ==
    deleters.found =>
        /\ deleters.http = 200
        /\ deleters.kb \notin Kbs
        /\ deleters.kb \notin kb_documents
        /\ StatusOf(deleters.index) \in {CLEANUP, "GONE"}

\* C9: delete_kb for a KB on index X posts a cleanup trigger and leaves X to
\* the cleanup worker: X is CLEANUP until its row is removed.
C9_DeleteKbDispatchesCleanup ==
    deleters.found =>
        /\ deleters.triggered
        /\ StatusOf(deleters.index) \in {CLEANUP, "GONE"}
        /\ (deleters.index \notin Rows => deleters.index \notin remote)

\* C10: the pool held MIN_POOL AVAILABLE rows, one create_kb succeeded and
\* posted its trigger, and the reconcile worker has run the cycle that took
\* the trigger: MIN_POOL rows are AVAILABLE again beside the ASSIGNED one.
C10_Refill ==
    (/\ init_rows = MIN_INDEX_POOL
     /\ create_requests = 1
     /\ answers["created"] = 1
     /\ reconcile_worker.pc = "waiting"
     /\ reconcile_worker.cycles > 0
     /\ reconcile_queue = 0) =>
        /\ Count(AVAILABLE) = MIN_INDEX_POOL
        /\ Count(ASSIGNED) = 1

\* create-KB requests that were answered with a failure of the database
DbFailures == answers["rolled_back"] + answers["committed_then_raised"]

\* the floor of the pool: AVAILABLE plus fresh PROVISIONING reach MIN_POOL
PoolFloor == Count(AVAILABLE) + Cardinality(FreshProvisioning) >= MIN_INDEX_POOL

\* C11: of N create-KB calls on A AVAILABLE rows, the database not failing,
\* exactly min(N, A) insert their KB and the others are answered that no index
\* is available; once the reconcile worker has run a cycle after them, the
\* pool is back at its floor.
C11_ConcurrentCreators ==
    (/\ create_requests = MaxCreateRequests
     /\ creators = {}
     /\ DbFailures = 0) =>
        /\ answers["created"] = Min(create_requests, init_rows)
        /\ answers["no_index"] = create_requests - Min(create_requests, init_rows)
        /\ (/\ reconcile_worker.pc = "waiting"
            /\ reconcile_worker.cycles > 0
            /\ reconcile_queue = 0) => PoolFloor

\* C12: create_kb is all-or-nothing: the step that ends a request leaves its
\* row ASSIGNED with a KB referencing it, or AVAILABLE with no KB added.
C12_AllOrNothing ==
    [][\A c \in creators \ creators' :
          \/ /\ StatusOf(c.row)' = ASSIGNED
             /\ Referenced(c.row)'
          \/ /\ StatusOf(c.row)' = AVAILABLE
             /\ ~Referenced(c.row)'
             /\ knowledge_bases' = knowledge_bases]_vars

\* C12 witness: of two requests on two rows one was rolled back after its
\* reservation and one was created: one row AVAILABLE, one ASSIGNED, one KB.
C12_Witness ==
    /\ init_rows = 2
    /\ Provisioned = {}
    /\ answers["rolled_back"] = 1
    /\ answers["created"] = 1
    /\ Count(AVAILABLE) = 1
    /\ Count(ASSIGNED) = 1
    /\ Cardinality(Kbs) = 1

\* C13: a delete_kb request for a kb_id the calling user has no KB of is
\* answered 404, changes no index, KB or membership row and posts no cleanup
\* trigger.
C13_DeleteMissingKb ==
    [][(/\ deleters' # deleters
        /\ deleters'.kb # 0
        /\ ~deleters'.found) =>
           /\ deleters'.http = 404
           /\ ~deleters'.triggered
           /\ UNCHANGED <<index_table, kb_table, cleanup_channel>>]_vars

\* what a cycle raises when the database or the service fails under it
ExternalFailures == {"ServiceUnavailableException", "QueryError", "RowDeleteError"}

\* C14: with a stable remote every invocation of cleanup_indexes returns
\* without error: a cycle that ended, and under which neither the service nor
\* the database failed, ended by returning.
C14_IdempotentCleanup ==
    \A r \in Runners :
        (cleanups[r].pc = "idle" /\ cleanups[r].result \notin ExternalFailures)
            => cleanups[r].result \in {"", "ok", "empty"}

\* C15: delete_vector_index never raises for an index that does not exist:
\* no cleanup task has raised the service's not-found answer.
C15_IdempotentDelete ==
    \A r \in Runners :
        \A i \in DOMAIN cleanups[r].tasks :
            cleanups[r].tasks[i].err # "NotFoundException"

\* C16: a cleanup task gets to its row delete only from a delete_index that
\* returned, and deletes only from there; a delete_index that raises leaves
\* the table, and so the row, its status and its being a candidate, as they
\* were; a cycle with a task that raised ends with an error.
C16_DeleteAfterRemote ==
    [][\A r \in Runners :
          LET tasks == cleanups[r].tasks
              after == cleanups'[r].tasks
          IN /\ \A i \in (DOMAIN tasks) \cap (DOMAIN after) :
                  /\ (after[i].st = "delete_row") =>
                         tasks[i].st \in {"delete_index", "delete_row"}
                  /\ (after[i].st = "done") => tasks[i].st \in {"delete_row", "done"}
                  /\ (tasks[i].st # "done" /\ after[i].st = "done") => i \notin Rows'
                  /\ (tasks[i].st = "delete_index" /\ after[i].st = "raised") =>
                         /\ vector_indexes' = vector_indexes
                         /\ i \in Rows => CleanupCandidate(i)' = CleanupCandidate(i)
             /\ (/\ cleanups[r].pc = "tasks"
                 /\ cleanups'[r].pc = "idle"
                 /\ \E i \in DOMAIN tasks : tasks[i].st = "raised") =>
                    cleanups'[r].result \notin {"", "ok", "empty"}]_vars

\* C16 witness: the worker's cycle ended with the error of a failed
\* delete_index, and the row it was about is still there, with its index in
\* the bucket, and is a candidate of the next cycle.
C16_Witness ==
    /\ cleanups["worker"].pc = "idle"
    /\ cleanups["worker"].result = "ServiceUnavailableException"
    /\ \E i \in get_cleanup_indexes : vector_indexes[i].index_arn \in remote

\* C17: a wake of either worker runs one cycle and leaves no trigger queued,
\* however many were queued: K triggers posted while the worker waits make
\* one cycle, not K.
C17_Coalescing ==
    [][/\ (reconcile_worker'.cycles # reconcile_worker.cycles) =>
              /\ reconcile_worker'.cycles = reconcile_worker.cycles + 1
              /\ reconcile_queue' = 0
       /\ (cleanup_cycles'["worker"] # cleanup_cycles["worker"]) =>
              /\ cleanup_cycles'["worker"] = cleanup_cycles["worker"] + 1
              /\ cleanup_queue' = 0]_vars

\* C17 witness: two triggers were posted to each worker, each worker has run
\* one cycle and neither queue holds a trigger.
C17_Witness ==
    /\ answers["created"] = 2
    /\ reconcile_worker.cycles = 1
    /\ reconcile_queue = 0
    /\ cleanup_posts = 2
    /\ cleanup_cycles["worker"] = 1
    /\ cleanup_queue = 0

\* C18: each trigger queue holds at most one pending trigger.
C18_SingleSlot == reconcile_queue <= 1 /\ cleanup_queue <= 1

\* C19: no trigger is lost.  A post adds a trigger to its queue; a trigger
\* leaves a queue only in the step in which the worker starts a cycle; and a
\* worker with a trigger queued starts a cycle after it (within the cycles
\* the model explores).
C19_NoTriggerLost ==
    /\ [][/\ (cleanup_posts' # cleanup_posts) => cleanup_queue' = cleanup_queue + 1
          /\ (answers'["created"] # answers["created"]) =>
                 reconcile_queue' = reconcile_queue + 1
          /\ (cleanup_queue' < cleanup_queue) =>
                 cleanup_cycles'["worker"] = cleanup_cycles["worker"] + 1
          /\ (reconcile_queue' < reconcile_queue) =>
                 reconcile_worker'.cycles = reconcile_worker.cycles + 1]_vars
    /\ \A n \in 0..(MaxReconcileCycles - 1) :
          (reconcile_queue > 0 /\ reconcile_worker.cycles = n)
              ~> (reconcile_worker.cycles > n)
    /\ \A n \in 0..(MaxWorkerCycles - 1) :
          (cleanup_queue > 0 /\ cleanup_cycles["worker"] = n)
              ~> (cleanup_cycles["worker"] > n)

\* C19 witness: a trigger was posted to each worker after its first cycle,
\* and a second cycle of each has taken it.
C19_Witness ==
    /\ cleanup_posts = 2
    /\ cleanup_cycles["worker"] = 2
    /\ cleanup_queue = 0
    /\ answers["created"] = 2
    /\ reconcile_worker.cycles = 2
    /\ reconcile_queue = 0

\* what a cleanup cycle ends with when one of its tasks raised
TaskErrors == {"ServiceUnavailableException", "NotFoundException", "RowDeleteError"}

\* C20: a cycle that failed does not end its worker.  After a failed cycle the
\* reconcile worker is at its wait and its next cycle can start; after a
\* cleanup cycle that failed, on its query or on a task, the cleanup worker is
\* at its wait and a queued trigger starts its next cycle.
C20_WorkersSurvive ==
    /\ (reconcile_worker.last # "") =>
           /\ reconcile_worker.pc = "waiting"
           /\ (reconcile_queue = 0 /\ reconcile_worker.cycles < MaxReconcileCycles)
                  => ENABLED ReconcileWorkerTimeout
    /\ (cleanups["worker"].result \in TaskErrors \cup {"QueryError"}) =>
           /\ cleanups["worker"].pc = "idle"
           /\ (cleanup_queue > 0 /\ cleanup_cycles["worker"] < MaxWorkerCycles)
                  => ENABLED CleanupWorkerWake

\* C20 witness: the reconcile worker has run two cycles after its failed
\* initial one, all failing; the cleanup worker's first cycle ended with the
\* error of a task and the worker waits with a trigger queued.
C20_Witness ==
    /\ reconcile_worker.last = "TypeError"
    /\ reconcile_worker.cycles = 2
    /\ cleanups["worker"].pc = "idle"
    /\ cleanups["worker"].result \in TaskErrors
    /\ cleanup_cycles["worker"] = 1
    /\ cleanup_queue > 0

(* ------------------------ claims C21 to C30 --------------------------- *)
\* A table left by an earlier run of the process: of its rows, the first
\* `stuck` are PROVISIONING (the process stopped between Phase A and Phase C,
\* manager.py:54 and :85) and the others AVAILABLE; each has its index in the
\* bucket.  Everything else is as in Init.
InitLeftover ==
    /\ init_rows \in 0..MaxInitRows
    /\ \E stuck \in 0..init_rows :
          vector_indexes = [i \in 1..init_rows |->
                               Row(IF i <= stuck THEN PROVISIONING ELSE AVAILABLE, i, 0)]
    /\ next_index_id = init_rows + 1
    /\ remote = 1..init_rows
    /\ knowledge_bases = <<>>
    /\ next_kb_id = 1
    /\ kb_documents = {}
    /\ now = 0
    /\ provisioners = {}
    /\ provision_calls = 0
    /\ creators = {}
    /\ create_requests = 0
    /\ answers = [k \in AnswerKinds |-> 0]
    /\ deleters = [kb |-> 0, found |-> FALSE, raised |-> "", index |-> 0, http |-> 0,
                   triggered |-> FALSE]
    /\ NoDocuments
    /\ cleanups = [r \in Runners |-> Idle("")]
    /\ cleanup_cycles = [r \in Runners |-> 0]
    /\ reconcile_worker = [pc |-> "initial", cycles |-> 0, last |-> ""]
    /\ prime = "ready"
    /\ pool_stats = NoPoolStats
    /\ reconcile_queue = 0
    /\ cleanup_queue = 0
    /\ cleanup_posts = 0

\* The two cleanup runners side by side: the cleanup worker woken by
\* trigger_cleanup and the scheduled job, each running cleanup_indexes on the
\* event loop (main.py:51 and manager.py:291), over a left-over table.
NextThrottle ==
    \/ Tick
    \/ TriggerCleanup
    \/ CleanupWorkerWake
    \/ ScheduledCleanup
    \/ CleanupDispatch
    \/ CleanupDeleteIndexReturns
    \/ CleanupDeleteRow
    \/ CleanupCycleEnds

SpecThrottle == InitLeftover /\ [][NextThrottle]_vars

\* create_index calls dispatched to a thread and not yet returned
CreateIndexInFlight == Cardinality({t \in provisioners : t.pc = "create_index"})

\* delete_index calls dispatched by a task that still awaits the answer
DeleteIndexInFlight(r) ==
    Cardinality({i \in DOMAIN cleanups[r].tasks : cleanups[r].tasks[i].st = "delete_index"})

\* C21: at most MAX_PROVISIONER create_index calls and at most MAX_PROVISIONER
\* delete_index calls are in flight, the calls of a scheduled cleanup that
\* runs beside a cycle of the cleanup worker counted together.
C21_Throttle ==
    /\ CreateIndexInFlight <= MAX_INDEX_PROVISIONER
    /\ DeleteIndexInFlight("worker") + DeleteIndexInFlight("scheduler")
           <= MAX_INDEX_PROVISIONER

\* the edges of the status machine of a VectorIndex row
StatusEdges ==
    {<<PROVISIONING, AVAILABLE>>, <<AVAILABLE, ASSIGNED>>, <<ASSIGNED, CLEANUP>>,
     <<PROVISIONING, FAILED>>}

\* C22: a row enters the table as PROVISIONING under an id never used before,
\* and every change of the status of a row that stays in the table is along
\* PROVISIONING -> AVAILABLE, AVAILABLE -> ASSIGNED, ASSIGNED -> CLEANUP or
\* PROVISIONING -> FAILED: no row goes back to an earlier status.
C22_StatusMachine ==
    [][/\ \A i \in Rows' \ Rows :
             /\ i >= next_index_id
             /\ vector_indexes'[i].status = PROVISIONING
       /\ \A i \in Rows \cap Rows' :
             \/ vector_indexes'[i].status = vector_indexes[i].status
             \/ <<vector_indexes[i].status, vector_indexes'[i].status>> \in StatusEdges]_vars

\* C22 witness: a row inserted by a provisioning task was taken to AVAILABLE
\* by its finalize and then to ASSIGNED by a create_kb that committed.
C22_Witness ==
    \E t \in Provisioned :
        /\ StatusOf(t.row) = ASSIGNED
        /\ Referenced(t.row)

\* C23: the provisioning tasks have pairwise different index names, no two
\* rows share an index_arn, a row's index_arn never changes, and the row of a
\* task carries the index_arn the task gave to create_index.
C23_FreshIndexName ==
    [][/\ \A t1, t2 \in provisioners' :
             t1.id # t2.id => t1.index_arn # t2.index_arn
       /\ \A i, j \in Rows' :
             i # j => vector_indexes'[i].index_arn # vector_indexes'[j].index_arn
       /\ \A i \in Rows \cap Rows' :
             vector_indexes'[i].index_arn = vector_indexes[i].index_arn
       /\ \A t \in provisioners' :
             t.row \in Rows' => vector_indexes'[t.row].index_arn = t.index_arn]_vars

\* The shutdown: the cleanup worker and its cycles over a left-over table,
\* the reconcile worker on its timer, and the end of the lifespan.
NextShutdown ==
    \/ Tick
    \/ TriggerCleanup
    \/ CleanupWorkerWake
    \/ CleanupDispatch
    \/ CleanupDeleteIndexReturns
    \/ CleanupDeleteRow
    \/ CleanupCycleEnds
    \/ ReconcileWorkerStarts
    \/ ReconcileWorkerTimeout
    \/ Shutdown

SpecShutdown == InitLeftover /\ [][NextShutdown]_vars

\* C24: once the workers are cancelled no task issues a delete_index call,
\* and the cancellation lets every task that had a delete_index call in
\* flight, or had it answered and its row delete ahead, run to its own end:
\* done or raised, not cancelled.
C24_ShutdownDrains ==
    [][LET tasks == cleanups["worker"].tasks
           after == cleanups'["worker"].tasks
       IN /\ cleanups["worker"].pc = "cancelled" =>
                 \A i \in DOMAIN after :
                     after[i].st = "delete_index" =>
                         (i \in DOMAIN tasks /\ tasks[i].st = "delete_index")
          /\ (cleanups["worker"].pc # "cancelled" /\ cleanups'["worker"].pc = "cancelled") =>
                 \A i \in DOMAIN tasks :
                     tasks[i].st \in {"delete_index", "delete_row"} =>
                         after[i].st \in {"done", "raised"}]_vars

\* PROVISIONING rows created more than the stuck threshold ago
StuckProvisioning ==
    {i \in WithStatus(PROVISIONING) :
        vector_indexes[i].created_at < now - CleanupStuckMinutes}

\* C25: a cleanup cycle whose query succeeds has a task for every PROVISIONING
\* row older than the stuck threshold, holding the row's index_arn; a task's
\* delete_index call that succeeds removes the index of that arn from the
\* bucket; and a cycle none of whose tasks raised has removed the row of
\* every one of its tasks.
C25_StuckProvisioning ==
    [][\A r \in Runners :
          LET tasks == cleanups[r].tasks
              after == cleanups'[r].tasks
          IN /\ (/\ cleanup_cycles'[r] # cleanup_cycles[r]
                 /\ cleanups'[r].result # "QueryError") =>
                    \A i \in StuckProvisioning :
                        /\ i \in DOMAIN after
                        /\ after[i].index_arn = vector_indexes[i].index_arn
                        /\ after[i].st = "waiting"
             /\ \A i \in (DOMAIN tasks) \cap (DOMAIN after) :
                    (tasks[i].st = "delete_index" /\ after[i].st = "delete_row") =>
                        tasks[i].index_arn \notin remote'
             /\ (/\ cleanups[r].pc = "tasks"
                 /\ cleanups'[r].pc = "idle"
                 /\ cleanups'[r].result = "ok") =>
                    \A i \in DOMAIN tasks : tasks[i].st = "done" /\ i \notin Rows']_vars

\* C25 witness: a task created its index and failed at finalize; its row
\* stayed PROVISIONING, grew older than the threshold, and a cycle of the
\* cleanup worker that ended without error removed the row and the index.
C25_Witness ==
    \E t \in provisioners :
        /\ t.pc = "raised_finalize"
        /\ t.row \notin Rows
        /\ t.index_arn \notin remote
        /\ cleanups["worker"].pc = "idle"
        /\ cleanups["worker"].result = "ok"

\* C26: no cleanup task dispatches delete_index for, or deletes, a row that
\* is AVAILABLE or ASSIGNED at that step.
C26_LiveRowsExcluded ==
    [][\A r \in Runners :
          LET tasks == cleanups[r].tasks
              after == cleanups'[r].tasks
          IN \A i \in (DOMAIN tasks) \cap (DOMAIN after) :
                 /\ (tasks[i].st = "waiting" /\ after[i].st = "delete_index") =>
                        StatusOf(i) \notin {AVAILABLE, ASSIGNED}
                 /\ (tasks[i].st = "delete_row" /\ after[i].st = "done") =>
                        StatusOf(i) \notin {AVAILABLE, ASSIGNED}]_vars

\* what a reconcile cycle has to provision: MIN_POOL less the AVAILABLE and
\* the fresh PROVISIONING rows, and not less than none
Need ==
    IF PoolFloor THEN 0
    ELSE MIN_INDEX_POOL - (Count(AVAILABLE) + Cardinality(FreshProvisioning))

\* a step in which the reconcile worker runs a cycle to its end
ReconcileCycleStep ==
    /\ reconcile_worker' # reconcile_worker
    /\ reconcile_worker'.pc = "waiting"

\* the ends of provision_new_index: the row AVAILABLE, or an exception raised
TerminalPcs ==
    {"provisioned", "raised_insert", "raised_create", "raised_finalize",
     "raised_finalize_missing"}

\* C27: a reconcile cycle on a pool that needs more than one index returns
\* with every task it spawned at its own end, and reports what its tasks
\* raised: it returns without an exception when none of them raised and
\* raises their collected exceptions otherwise.
C27_TasksIndependent ==
    [][(ReconcileCycleStep /\ Need > 1) =>
          LET spawned == provisioners' \ provisioners
              failed == {t \in spawned : t.pc # "provisioned"}
          IN /\ \A t \in spawned : t.pc \in TerminalPcs
             /\ reconcile_worker'.last \in {"", "ExceptionGroup"}
             /\ (reconcile_worker'.last = "") <=> (failed = {})]_vars

\* C28: a reconcile cycle starts exactly Need provisioning tasks, Need taken
\* from the table as it is when the cycle starts; a cycle on a pool at its
\* floor inserts no row and changes nothing in the bucket.
C28_NeedTasks ==
    [][ReconcileCycleStep =>
          /\ provision_calls' = provision_calls + Need
          /\ Need = 0 => UNCHANGED <<index_table, remote>>]_vars

\* The pool statistics read over tables in every mix of fresh and stuck
\* PROVISIONING rows: provisioning tasks, the clock, and get_index_pool_stats
\* called with either flag, on a left-over table.
NextStats ==
    \/ ProvisionCall
    \/ CreateIndexReturns
    \/ Rollback
    \/ Finalize
    \/ Tick
    \/ GetIndexPoolStats

SpecStats == InitLeftover /\ [][NextStats]_vars

\* C29: a call of get_index_pool_stats with the flag reconcile passes
\* (time_threshold=True) returns, and its provisioning_count is the number of
\* PROVISIONING rows created within the last T_stuck: a PROVISIONING row
\* older than that is not counted.
C29_FreshOnly ==
    [][(pool_stats' # pool_stats /\ pool_stats'.time_threshold) =>
          /\ pool_stats'.raised = ""
          /\ pool_stats'.stats.provisioning_count = Cardinality(FreshProvisioning)]_vars

\* Tables for the cleanup query: up to MaxInitRows rows of any status, created
\* at minute 0, and up to MaxInitKbs knowledge bases, each referencing any of
\* the rows, two of them possibly the same one.  Everything else as in Init.
InitAnyTable ==
    /\ init_rows \in 0..MaxInitRows
    /\ \E statuses \in [1..init_rows -> ProvisionerStatusEnum] :
          vector_indexes = [i \in 1..init_rows |-> Row(statuses[i], i, 0)]
    /\ next_index_id = init_rows + 1
    /\ remote = 1..init_rows
    /\ \E n \in 0..MaxInitKbs :
          /\ next_kb_id = n + 1
          /\ \E refs \in [1..n -> 1..init_rows] :
                knowledge_bases = [k \in 1..n |-> [user_id |-> 1, index_id |-> refs[k]]]
    /\ kb_documents = {}
    /\ now = 0
    /\ provisioners = {}
    /\ provision_calls = 0
    /\ creators = {}
    /\ create_requests = 0
    /\ answers = [k \in AnswerKinds |-> 0]
    /\ deleters = [kb |-> 0, found |-> FALSE, raised |-> "", index |-> 0, http |-> 0,
                   triggered |-> FALSE]
    /\ NoDocuments
    /\ cleanups = [r \in Runners |-> Idle("")]
    /\ cleanup_cycles = [r \in Runners |-> 0]
    /\ reconcile_worker = [pc |-> "initial", cycles |-> 0, last |-> ""]
    /\ prime = "ready"
    /\ pool_stats = NoPoolStats
    /\ reconcile_queue = 0
    /\ cleanup_queue = 0
    /\ cleanup_posts = 0

\* The cleanup query applied to any table, before and after the clock has
\* taken the rows past the stuck threshold.
NextCandidates ==
    \/ Tick
    \/ ScheduledCleanup

SpecCandidates == InitAnyTable /\ [][NextCandidates]_vars

\* the candidate set as the specification words it
ExpectedCandidates ==
    WithStatus(FAILED) \cup StuckProvisioning
        \cup {i \in WithStatus(CLEANUP) : ~Referenced(i)}

\* C30: a cleanup cycle whose query succeeds gets exactly the rows that are
\* FAILED, or PROVISIONING and older than the stuck threshold, or CLEANUP and
\* referenced by no KB, each of them once, and no AVAILABLE, ASSIGNED, fresh
\* PROVISIONING or referenced CLEANUP row.
C30_CandidateSet ==
    [][\A r \in Runners :
          (/\ cleanup_cycles'[r] # cleanup_cycles[r]
           /\ cleanups'[r].result # "QueryError") =>
              /\ DOMAIN cleanups'[r].tasks = ExpectedCandidates
              /\ \A i \in Rows :
                    returned_times(i) = IF i \in ExpectedCandidates THEN 1 ELSE 0
              /\ \A i \in DOMAIN cleanups'[r].tasks :
                    /\ StatusOf(i) \notin {AVAILABLE, ASSIGNED}
                    /\ i \notin FreshProvisioning
                    /\ ~(StatusOf(i) = CLEANUP /\ Referenced(i))]_vars

\* C30 witness: a cycle started on a table with a FAILED row that two KBs
\* reference, a fresh PROVISIONING row and an AVAILABLE row: the FAILED row
\* is among its tasks, the other two are not.
C30_Witness ==
    /\ cleanups["scheduler"].pc = "tasks"
    /\ \E i \in DOMAIN cleanups["scheduler"].tasks :
          StatusOf(i) = FAILED /\ Cardinality(KbsOf(i)) = 2
    /\ \E i \in Rows \ DOMAIN cleanups["scheduler"].tasks : StatusOf(i) = PROVISIONING
    /\ \E i \in Rows \ DOMAIN cleanups["scheduler"].tasks : StatusOf(i) = AVAILABLE

(* ------------------------ claims C31 to C40 --------------------------- *)
\* C31: a call of provision_new_index whose Phase A fails raises with the
\* table and the bucket as they were; a call that goes on to create_index has
\* its PROVISIONING row committed; and an index appears in the bucket only by
\* the create_index call of a task that had inserted its row.
C31_InsertBeforeCreate ==
    [][/\ \A t \in provisioners' \ provisioners :
             (provision_calls' # provision_calls) =>
                 IF t.pc = "raised_insert"
                 THEN UNCHANGED <<vector_indexes, remote>>
                 ELSE /\ t.pc = "create_index"
                      /\ t.row \in Rows' \ Rows
                      /\ vector_indexes'[t.row].status = PROVISIONING
       /\ \A arn \in remote' \ remote :
             \E t \in provisioners :
                 /\ t.pc = "create_index"
                 /\ t.index_arn = arn
                 /\ t.row # 0]_vars

\* C32: a reconcile trigger is posted only in the step that ends a create-KB
\* request with its KB committed on an ASSIGNED row, and a request that ends
\* otherwise posts none; a cleanup trigger is posted only by a delete-KB
\* request that returned with its KB deleted, and a delete-KB request that
\* raised posts none.
C32_TriggerAfterCommit ==
    [][/\ (reconcile_queue' > reconcile_queue) =>
             /\ answers'["created"] = answers["created"] + 1
             /\ \E k \in Kbs' \ Kbs :
                   vector_indexes'[knowledge_bases'[k].index_id].status = ASSIGNED
       /\ (answers' # answers /\ answers'["created"] = answers["created"]) =>
             reconcile_queue' = reconcile_queue
       /\ (cleanup_posts' # cleanup_posts) =>
             /\ deleters' # deleters
             /\ deleters'.raised = ""
             /\ deleters'.kb \notin Kbs'
       /\ (deleters' # deleters /\ deleters'.raised # "") =>
             UNCHANGED cleanup_channel]_vars

\* C32 witness: one create-KB request committed and posted its trigger, one
\* was rolled back and posted none, and a delete-KB request for the KB raised
\* and posted no cleanup trigger; no worker has taken a trigger yet.
C32_Witness ==
    /\ answers["created"] = 1
    /\ answers["rolled_back"] = 1
    /\ reconcile_worker.cycles = 0
    /\ reconcile_queue = 1
    /\ deleters.found
    /\ deleters.raised = "AttributeError"
    /\ cleanup_posts = 0

\* a step of a provisioning task, of a reconcile cycle or of a cleanup cycle
ProvisionerStep ==
    \/ provisioners' # provisioners
    \/ reconcile_worker' # reconcile_worker
    \/ cleanups' # cleanups

\* a step of a create-KB or delete-KB request
FacadeStep ==
    \/ creators' # creators
    \/ answers' # answers
    \/ deleters' # deleters

InitDocuments ==
    /\ init_rows = 0
    /\ vector_indexes = <<>>
    /\ next_index_id = 1
    /\ remote = {}
    /\ knowledge_bases = <<>>
    /\ next_kb_id = 1
    /\ kb_documents = {}
    /\ now = 0
    /\ provisioners = {}
    /\ provision_calls = 0
    /\ creators = {}
    /\ create_requests = 0
    /\ answers = [k \in AnswerKinds |-> 0]
    /\ deleters = [kb |-> 0, found |-> FALSE, raised |-> "", index |-> 0, http |-> 0,
                   triggered |-> FALSE]
    /\ \E n \in 0..MaxDocuments :
          /\ document_registry \in
                 [1..n -> [user_id : Users, lock_status : BOOLEAN,
                           op_status : OperationStatusEnum]]
          /\ document_members \in SUBSET (1..n)
          /\ objects \in SUBSET (1..n)
    /\ file_deleters = NoFileRequest
    /\ cleanups = [r \in Runners |-> Idle("")]
    /\ cleanup_cycles = [r \in Runners |-> 0]
    /\ reconcile_worker = [pc |-> "initial", cycles |-> 0, last |-> ""]
    /\ prime = "ready"
    /\ pool_stats = NoPoolStats
    /\ reconcile_queue = 0
    /\ cleanup_queue = 0
    /\ cleanup_posts = 0

\* delete-file requests on any registry
NextDocuments ==
    \/ DeleteFile

SpecDocuments == InitDocuments /\ [][NextDocuments]_vars

\* C34: a delete-file request for a document that has a membership row is
\* answered 409, the database not failing, and leaves the registry, the
\* membership rows and the bucket as they were.
C34_DeleteMemberConflict ==
    [][(/\ file_deleters' # file_deleters
        /\ file_deleters'.file_id \in document_members
        /\ file_deleters'.raised # "DatabaseError") =>
           /\ file_deleters'.http = 409
           /\ UNCHANGED <<document_registry, document_members, objects>>]_vars

\* C34 witness: a delete-file request by its owner for a listed document
\* (unlocked, SUCCESS, its object stored) that is in a knowledge base was
\* answered 409, and the document is still listed with its object.
C34_Witness ==
    /\ file_deleters.http = 409
    /\ file_deleters.file_id \in Documents \cap document_members \cap objects
    /\ document_registry[file_deleters.file_id] =
           Document(file_deleters.user_id, FALSE, SUCCESS)


\* rows that are in the pool or on their way into it
PoolRows == Count(AVAILABLE) + Count(PROVISIONING)

\* C35: on a table that started with at most MIN_INDEX_POOL rows, the rows
\* with status AVAILABLE or PROVISIONING never number more than
\* MIN_INDEX_POOL, whatever the reconcile worker, the prime, create-KB and
\* delete-KB requests and the scheduled cleanup do.
C35_NoOverProvision ==
    init_rows <= MIN_INDEX_POOL => PoolRows <= MIN_INDEX_POOL

\* C35 witness: the prime has run, then the worker has run a cycle after a
\* knowledge base took an index from a pool that started full.
C35_Witness ==
    /\ init_rows = MIN_INDEX_POOL
    /\ prime # "ready"
    /\ reconcile_worker.cycles >= 1
    /\ Kbs # {}
    /\ PoolRows = MIN_INDEX_POOL - Cardinality(Kbs)


\* PROVISIONING rows the cleanup query returns
ProvisioningCandidates == {i \in WithStatus(PROVISIONING) : CleanupCandidate(i)}

\* C36: the PROVISIONING rows that reconcile's statistics count (the call of
\* manager.py:103, time_threshold set) and the PROVISIONING rows that are
\* cleanup candidates are two classes that split the PROVISIONING rows: no
\* row is in both and none in neither, so their numbers add up to the number
\* of PROVISIONING rows.
C36_OneClass ==
    pool_counts(TRUE).provisioning_count + Cardinality(ProvisioningCandidates)
        = Count(PROVISIONING)


\* C37: every ASSIGNED row is referenced by exactly one KnowledgeBase; none
\* is left ASSIGNED with its KB gone.
C37_AssignedHasOneKb ==
    \A i \in WithStatus(ASSIGNED) : Cardinality(KbsOf(i)) = 1

\* C37 witness: a delete-KB request of its owner for an existing KB has been
\* answered, and the KB's index is ASSIGNED and referenced by that KB alone.
C37_Witness ==
    /\ deleters.found
    /\ deleters.http = 500
    /\ StatusOf(deleters.index) = ASSIGNED
    /\ KbsOf(deleters.index) = {deleters.kb}


\* the exceptions provision_new_index ends with
RaisedPcs == TerminalPcs \ {"provisioned"}

\* C38: on a table that started without FAILED or DESTROYED rows every
\* row's status is PROVISIONING, AVAILABLE, ASSIGNED or CLEANUP in every
\* state, and the step in which a provisioning task raises leaves the task's
\* row absent or PROVISIONING.
C38_NoFailedWritten ==
    /\ [](\A i \in Rows :
             vector_indexes[i].status \in {PROVISIONING, AVAILABLE, ASSIGNED, CLEANUP})
    /\ [][\A t \in provisioners' \ provisioners :
             t.pc \in RaisedPcs =>
                 IF t.row # 0
                 THEN StatusOf(t.row)' \in {"GONE", PROVISIONING}
                 ELSE \A i \in Rows' \ Rows : vector_indexes'[i].status = PROVISIONING]_vars

\* C38 witness: two provisioning tasks have failed, one at create_index with
\* its row deleted by the compensation, one with its row left PROVISIONING.
C38_Witness ==
    \E t, u \in provisioners :
        /\ t.pc = "raised_create"
        /\ t.row \notin Rows
        /\ u.pc \in RaisedPcs
        /\ u.row \in WithStatus(PROVISIONING)


\* no provisioning task and no cleanup task is between its start and its end
NothingInFlight ==
    /\ \A t \in provisioners : ~Running(t)
    /\ \A r \in Runners : cleanups[r].pc = "idle"

\* C39: whenever no provisioning task and no cleanup task is in flight,
\* every index in the bucket has a VectorIndex row with its index_arn.
C39_NoOrphanIndex ==
    NothingInFlight =>
        \A a \in remote : \E i \in Rows : vector_indexes[i].index_arn = a


\* list_files, document_registry.py:98-124: the documents a user is shown,
\* those of the user that are unlocked and SUCCESS
Listed(d, user) ==
    /\ d \in Documents
    /\ document_registry[d] = Document(user, FALSE, SUCCESS)

\* C40: a delete-file request removes a registry row only if it is the
\* requested document and its object is gone from the bucket; and a request
\* of its owner for a listed document that is in no knowledge base, the
\* database not failing, ends in one of two ways: the object and the row are
\* deleted and the answer is 200, or the object-store deletion failed, the
\* answer is 500 and the row is kept, locked and PENDING.
C40_LockThenDelete ==
    [][file_deleters' # file_deleters =>
          LET d == file_deleters'.file_id
              user == file_deleters'.user_id
          IN /\ \A gone \in Documents \ DOMAIN document_registry' :
                    gone = d /\ gone \notin objects'
             /\ (/\ Listed(d, user)
                 /\ d \notin document_members
                 /\ file_deleters'.raised # "DatabaseError") =>
                    \/ /\ file_deleters'.http = 200
                       /\ d \notin DOMAIN document_registry'
                       /\ d \notin objects'
                    \/ /\ file_deleters'.http = 500
                       /\ d \in DOMAIN document_registry'
                       /\ document_registry'[d] = Document(user, TRUE, PENDING)
                       /\ objects' = objects]_vars

====
